---- MODULE Spec2Model ----
(***************************************************************************)
(* Model of Pyomic/bulk2single/_utils.py: the two loaders (load_data,      *)
(* bulk2single_data_prepare) and the estimator data_process.               *)
(*                                                                         *)
(* Gene, cell and cell-type identifiers are strings in the program; here   *)
(* they are naturals whose numeric order stands for the lexicographic      *)
(* order of the names.  Expression values are naturals; per-type means and *)
(* proportions are exact fractions [num, den], so floating-point rounding  *)
(* error is not modelled.                                                  *)
(***************************************************************************)
EXTENDS Integers, Sequences, FiniteSets, TLC

\* ---- bounds of the model ----
NGene == 2       \* gene identifiers 1..NGene
MaxLen == 2      \* longest gene list (rows of a table)
NCell == 2       \* the single-cell table has 1..NCell columns
NLabel == 2      \* cell-type labels 1..NLabel
MaxMeta == 2     \* most rows of the metadata table
MaxExpr == 1     \* expression values 0..MaxExpr
MaxTop == 2      \* top_marker_num in 0..MaxTop
MaxRatio == 3    \* ratio_num in {1/RatioDen .. MaxRatio/RatioDen}
RatioDen == 2
MaxWeight == 2   \* each fitted weight in 0..MaxWeight

VARIABLES bulk_csv, sc_csv, meta_csv, pc, data, raised, calls,
          top_marker_num, ratio_num, marker, id2label, single_cell_matrix,
          weights, cell_target_num

vars == <<bulk_csv, sc_csv, meta_csv, pc, data, raised, calls,
          top_marker_num, ratio_num, marker, id2label, single_cell_matrix,
          weights, cell_target_num>>

\* ---- helpers ----
Range(s) == {s[i] : i \in DOMAIN s}

IsUnique(s) == \A i, j \in DOMAIN s : s[i] = s[j] => i = j

\* positions of label k in an index, in index order
Positions(index, k) == SelectSeq([i \in 1..Len(index) |-> i], LAMBDA i : index[i] = k)

\* pandas .loc[keys]: for each key in turn, every row that carries it
RECURSIVE Loc(_, _)
Loc(index, keys) ==
  IF keys = <<>> THEN <<>>
  ELSE Positions(index, Head(keys)) \o Loc(index, Tail(keys))

\* .T of an nrows x ncols table
Transpose(vals, nrows, ncols) == [j \in 1..ncols |-> [i \in 1..nrows |-> vals[i][j]]]

\* the gene filter of both loaders:
\*   for i in sc_gene: if i in bulk_genes: intersection_genes.append(i)
intersection_genes_unfiltered(sc_gene, bulk_gene) == sc_gene

intersection_genes(sc_gene, bulk_gene) ==
  SelectSeq(sc_gene, LAMBDA g : g \in Range(bulk_gene))

NoData ==
  [input_sc_meta |-> <<>>, sc_gene |-> <<>>, bulk_gene |-> <<>>,
   intersect_gene |-> <<>>,
   input_sc_data |-> [index |-> <<>>, columns |-> <<>>, vals |-> <<>>],
   input_bulk |-> [index |-> <<>>, vals |-> <<>>]]

\* input_bulk.loc[intersect_gene] / bulk_data.loc[intersect_gene]
bulk_loc(bulk, keys) ==
  LET rb == Loc(bulk.index, keys)
  IN [index |-> [i \in 1..Len(rb) |-> bulk.index[rb[i]]],
      vals |-> [i \in 1..Len(rb) |-> bulk.vals[rb[i]]]]

\* input_sc_data.loc[intersect_gene]
sc_loc(sc, keys) ==
  LET rs == Loc(sc.index, keys)
  IN [index |-> [i \in 1..Len(rs) |-> sc.index[rs[i]]],
      columns |-> sc.columns,
      vals |-> [i \in 1..Len(rs) |-> sc.vals[rs[i]]]]

\* load_data: the three CSV tables
load_data(bulk, sc, meta) ==
  LET sc_gene == sc.index
      bulk_gene == bulk.index
      ig == intersection_genes(sc_gene, bulk_gene)
  IN [raised |-> "none",
      data |-> [input_sc_meta |-> meta, sc_gene |-> sc_gene,
                bulk_gene |-> bulk_gene, intersect_gene |-> ig,
                input_sc_data |-> sc_loc(sc, ig),
                input_bulk |-> bulk_loc(bulk, ig)]]

\* The annotated object that holds the same single-cell data as the CSV
\* tables: X is cells x genes, obs has one row per cell.
AnnData(sc, meta) ==
  [obs_names |-> sc.columns, var_names |-> sc.index,
   X |-> Transpose(sc.vals, Len(sc.index), Len(sc.columns)),
   celltype |-> [i \in 1..Len(meta) |-> meta[i].Cell_type]]

\* single_data[:, intersect_gene].to_df().T
\* (name-based indexing of an AnnData needs unique var_names)
adata_select_untransposed(adata, keys) ==
  LET p == Loc(adata.var_names, keys)
  IN [index |-> [i \in 1..Len(p) |-> adata.var_names[p[i]]],
      columns |-> adata.obs_names,
      vals |-> [j \in 1..Len(adata.obs_names) |-> [i \in 1..Len(p) |-> adata.X[j][p[i]]]]]

adata_select(adata, keys) ==
  LET p == Loc(adata.var_names, keys)
      sub == [j \in 1..Len(adata.obs_names) |-> [i \in 1..Len(p) |-> adata.X[j][p[i]]]]
  IN [index |-> [i \in 1..Len(p) |-> adata.var_names[p[i]]],
      columns |-> adata.obs_names,
      vals |-> Transpose(sub, Len(adata.obs_names), Len(p))]

\* bulk2single_data_prepare: bulk table and annotated object
bulk2single_data_prepare(bulk, single_data) ==
  LET ism == [i \in 1..Len(single_data.obs_names) |->
                [Cell |-> single_data.obs_names[i],
                 Cell_type |-> single_data.celltype[i]]]
      sc_gene == single_data.var_names
      bulk_gene == bulk.index
      ig == intersection_genes(sc_gene, bulk_gene)
  IN IF ig # <<>> /\ ~IsUnique(single_data.var_names)
     THEN [raised |-> "InvalidIndexError", data |-> NoData]
     ELSE [raised |-> "none",
           data |-> [input_sc_meta |-> ism, sc_gene |-> sc_gene,
                     bulk_gene |-> bulk_gene, intersect_gene |-> ig,
                     input_sc_data |-> adata_select(single_data, ig),
                     input_bulk |-> bulk_loc(bulk, ig)]]

\* ---- data_process ----
\* a numpy float: NaN, or an exact value
NaN == [nan |-> TRUE, val |-> 0]

Float(v) == [nan |-> FALSE, val |-> v]

RECURSIVE SumOver(_, _)
SumOver(f, S) ==
  IF S = {} THEN 0
  ELSE LET x == CHOOSE y \in S : TRUE IN f[x] + SumOver(f, S \ {x})

\* sorted(list(set)) and np.unique: the distinct values, ascending
RECURSIVE sorted_set(_)
sorted_set(S) ==
  IF S = {} THEN <<>>
  ELSE LET m == CHOOSE x \in S : \A y \in S : x <= y
       IN <<m>> \o sorted_set(S \ {m})

\* sc.obs = data["input_sc_meta"][['Cell_type']]: anndata takes the rows by
\* position and requires one row per observation
obs_ok(d) == Len(d.input_sc_meta) = Len(d.input_sc_data.columns)

breed_set(meta) == {meta[i].Cell_type : i \in 1..Len(meta)}

Perms(n) == {p \in [1..n -> 1..n] : IsUnique(p)}

\* scanpy.tl.rank_genes_groups(sc, 'Cell_type', method='wilcoxon'): one column
\* of names per group, each a ranking of all genes of the matrix.  The order
\* is whatever the test statistic gives, so any ranking may come back.  The
\* library may reject a matrix without genes or a group of a single cell.
rank_genes_groups(d) ==
  LET genes == d.input_sc_data.index
      n == Len(genes)
      meta == d.input_sc_meta
      groups == sorted_set(breed_set(meta))
      K == Len(groups)
      size(l) == Cardinality({i \in 1..Len(meta) : meta[i].Cell_type = l})
      mayFail == n = 0 \/ \E l \in breed_set(meta) : size(l) < 2
      ranked == {[failed |-> FALSE,
                  names |-> [k \in 1..K |-> [r \in 1..n |-> genes[ps[k][r]]]]] :
                 ps \in [1..K -> Perms(n)]}
  IN IF mayFail THEN ranked \cup {[failed |-> TRUE, names |-> <<>>]} ELSE ranked

\* pd.DataFrame(names).head(top_marker_num), then np.ravel: row by row
head_ravel_one_more(names, top) ==
  LET K == Len(names)
      n == IF K = 0 THEN 0 ELSE Len(names[1])
      rows == IF top + 1 < n THEN top + 1 ELSE n
  IN [i \in 1..(rows * K) |-> names[((i - 1) % K) + 1][((i - 1) \div K) + 1]]

head_ravel(names, top) ==
  LET K == Len(names)
      n == IF K = 0 THEN 0 ELSE Len(names[1])
      rows == IF top < n THEN top ELSE n
  IN [i \in 1..(rows * K) |-> names[((i - 1) % K) + 1][((i - 1) \div K) + 1]]

\* marker = list(np.unique(np.ravel(np.array(marker_df))))
marker_select(names, top) == sorted_set(Range(head_ravel(names, top)))

\* label2id = {label: idx for idx, label in enumerate(id2label)}
label2id_reversed(ids) ==
  [l \in Range(ids) |-> Len(ids) - (CHOOSE i \in 1..Len(ids) : ids[i] = l)]

label2id(ids) ==
  [l \in Range(ids) |-> (CHOOSE i \in 1..Len(ids) : ids[i] = l) - 1]

\* the loop over input_sc_meta.itertuples(): label2cell[cell_type].add(cell_name)
RECURSIVE label2cell_loop(_, _, _, _)
label2cell_loop(meta, l2id, i, acc) ==
  IF i > Len(meta) THEN acc
  ELSE LET cell_type == l2id[meta[i].Cell_type]
       IN label2cell_loop(meta, l2id, i + 1,
            [acc EXCEPT ![cell_type] = acc[cell_type] \cup {meta[i].Cell}])

label2cell(meta, ids) ==
  label2cell_loop(meta, label2id(ids), 1, [id \in 0..(Len(ids) - 1) |-> {}])

\* sc_marker[list(cells)].values.mean(axis=1): per gene, the mean over the
\* selected columns, kept as the fraction sum / count
split_mean(sc_marker, cells) ==
  LET cols == {p \in 1..Len(sc_marker.columns) : sc_marker.columns[p] \in cells}
  IN [g \in 1..Len(sc_marker.index) |->
        [num |-> SumOver(sc_marker.vals[g], cols), den |-> Cardinality(cols)]]

\* single_cell_matrix: row i is the mean vector of id i, then np.transpose
build_matrix(sc_marker, l2c, K) ==
  LET rows == [i \in 1..K |-> split_mean(sc_marker, l2c[i - 1])]
  IN Transpose(rows, K, Len(sc_marker.index))

\* scipy.optimize.nnls(single_cell_matrix, bulk_rep)[0].  The solver starts
\* from zero and only ever raises a weight whose column has a positive inner
\* product with the residual; with non-negative data a column orthogonal to
\* bulk_rep keeps weight 0, and the result is non-zero as soon as some column
\* is not orthogonal.  Any non-negative vector within these conditions is a
\* possible result.  On a matrix without rows the library either rejects the
\* input or returns zeros.
nnls(A, b, K) ==
  LET G == Len(b)
      c(k) == SumOver([g \in 1..G |-> A[g][k].num * b[g]], 1..G)
      sols == {x \in [1..K -> 0..MaxWeight] :
                 /\ \A k \in 1..K : c(k) = 0 => x[k] = 0
                 /\ (\E k \in 1..K : c(k) > 0) => \E k \in 1..K : x[k] > 0}
      fit == {[failed |-> FALSE, x |-> x] : x \in sols}
  IN IF G = 0 THEN fit \cup {[failed |-> TRUE, x |-> <<>>]} ELSE fit

\* np.round on a non-negative fraction n / d: half to even
np_round(n, d) ==
  LET q == n \div d
      r == n % d
  IN IF 2 * r < d THEN q
     ELSE IF 2 * r > d THEN q + 1
     ELSE IF q % 2 = 0 THEN q ELSE q + 1

\* ratio = ratio / sum(ratio); np.round(ratio * n_meta * ratio_num), where
\* ratio_num = rn / RatioDen.  A zero sum makes every entry 0/0 = NaN.
scale_divides(x, k, n_meta, rn) ==
  LET s == SumOver(x, DOMAIN x)
  IN IF s = 0 THEN NaN
     ELSE Float(np_round(x[k] * n_meta * RatioDen, s * rn))

scale(x, k, n_meta, rn) ==
  LET s == SumOver(x, DOMAIN x)
  IN IF s = 0 THEN NaN
     ELSE Float(np_round(x[k] * n_meta * rn, s * RatioDen))

\* cell_target_num = dict(zip(id2label, ratio_list))
zip_dict(ids, ratio_list) ==
  [l \in Range(ids) |-> ratio_list[CHOOSE i \in 1..Len(ids) : ids[i] = l]]

\* lines 195-202, "marker used": attach the metadata, rank the genes, keep
\* the top ones.  Every outcome of the step.
select_markers(d, top) ==
  IF ~obs_ok(d)
  THEN {[raised |-> "ValueError", calls |-> <<"set_obs">>, marker |-> <<>>]}
  ELSE {IF r.failed
        THEN [raised |-> "ValueError", calls |-> <<"set_obs", "rank_genes_groups">>,
              marker |-> <<>>]
        ELSE [raised |-> "none",
              calls |-> <<"set_obs", "rank_genes_groups", "select_markers">>,
              marker |-> marker_select(r.names, top)] :
        r \in rank_genes_groups(d)}

Est(err, steps, ids, mat, w, res) ==
  [raised |-> err, calls |-> steps, id2label |-> ids,
   single_cell_matrix |-> mat, weights |-> w, cell_target_num |-> res]

\* lines 243-251, for one outcome f of the solver
after_nnls(d, rn, ids, mat, f) ==
  IF f.failed
  THEN Est("ValueError", <<"split_by_label", "nnls">>, ids, mat, <<>>, <<>>)
  ELSE LET K == Len(ids)
           n_meta == Len(d.input_sc_meta)
           ratio_list == [k \in 1..K |-> scale(f.x, k, n_meta, rn)]
       IN Est("none", <<"split_by_label", "nnls", "normalize", "scale">>, ids, mat,
              f.x, zip_dict(ids, ratio_list))

\* lines 203-251, "Data processing": every outcome for the markers mk
estimate(d, mk, rn) ==
  LET sc_marker == sc_loc(d.input_sc_data, mk)
      bulk_marker == bulk_loc(d.input_bulk, mk)
      ids == sorted_set(breed_set(d.input_sc_meta))
      K == Len(ids)
      l2c == label2cell(d.input_sc_meta, ids)
  IN IF \E id \in 0..(K - 1) : ~(l2c[id] \subseteq Range(sc_marker.columns))
     THEN {Est("KeyError", <<"split_by_label">>, ids, <<>>, <<>>, <<>>)}
     ELSE LET mat == build_matrix(sc_marker, l2c, K)
          IN {after_nnls(d, rn, ids, mat, f) : f \in nnls(mat, bulk_marker.vals, K)}

\* ---- inputs ----
GeneLists == UNION {[1..n -> 1..NGene] : n \in 0..MaxLen}

UniqueGeneLists == {s \in GeneLists : IsUnique(s)}

BulkTables(lists, values) ==
  UNION {{[index |-> g, vals |-> v] : v \in [1..Len(g) -> values]} : g \in lists}

ScTables(lists, values) ==
  UNION {UNION {{[index |-> g, columns |-> [j \in 1..n |-> j], vals |-> v] :
                   v \in [1..Len(g) -> [1..n -> values]]} : g \in lists} :
         n \in 1..NCell}

\* tables in which every entry carries its own value, so that a row or a
\* column that ends up in the wrong place shows
BulkTablesCoded(lists) == {[index |-> g, vals |-> [i \in 1..Len(g) |-> i]] : g \in lists}

ScTablesCoded(lists) ==
  UNION {{[index |-> g, columns |-> [j \in 1..n |-> j],
           vals |-> [i \in 1..Len(g) |-> [j \in 1..n |-> (i - 1) * n + j]]] :
            g \in lists} : n \in 1..NCell}

MetaRows == [Cell : 1..NCell, Cell_type : 1..NLabel]

\* one metadata row per cell: no cell identifier twice
MetaTables ==
  {m \in UNION {[1..n -> MetaRows] : n \in 1..MaxMeta} :
     IsUnique([i \in 1..Len(m) |-> m[i].Cell])}

\* the metadata of an annotated object: one row per cell, in column order
ObsTables(sc) ==
  {m \in [1..Len(sc.columns) -> MetaRows] :
     \A i \in 1..Len(sc.columns) : m[i].Cell = sc.columns[i]}

\* metadata with one row for each column of the matrix, in any row order
MetaPerms(sc) ==
  {m \in [1..Len(sc.columns) -> MetaRows] :
     {m[i].Cell : i \in 1..Len(sc.columns)} = Range(sc.columns)}

InitRest ==
  /\ raised = "none"
  /\ ratio_num = 1
  /\ id2label = <<>>
  /\ single_cell_matrix = <<>>
  /\ weights = <<>>
  /\ cell_target_num = <<>>

InitStart ==
  /\ pc = "start"
  /\ data = NoData
  /\ calls = <<>>
  /\ top_marker_num = 0
  /\ marker = <<>>
  /\ InitRest

\* loader inputs: any gene lists, duplicates included
InitLoad ==
  /\ bulk_csv \in BulkTablesCoded(GeneLists)
  /\ sc_csv \in ScTablesCoded(GeneLists)
  /\ meta_csv \in ObsTables(sc_csv)
  /\ InitStart

\* the annotated object stands for the same inputs as the CSV tables when
\* the metadata lists exactly the cells of the matrix, in column order
SameAsObject == [i \in 1..Len(meta_csv) |-> meta_csv[i].Cell] = sc_csv.columns

LoadData ==
  /\ pc = "start"
  /\ LET r == load_data(bulk_csv, sc_csv, meta_csv)
     IN /\ data' = r.data
        /\ raised' = r.raised
  /\ pc' = "loaded"
  /\ UNCHANGED <<bulk_csv, sc_csv, meta_csv, calls, top_marker_num, ratio_num,
                 marker, id2label, single_cell_matrix, weights, cell_target_num>>

Bulk2singleDataPrepare ==
  /\ pc = "start"
  /\ SameAsObject
  /\ LET r == bulk2single_data_prepare(bulk_csv, AnnData(sc_csv, meta_csv))
     IN /\ data' = r.data
        /\ raised' = r.raised
  /\ pc' = "loaded"
  /\ UNCHANGED <<bulk_csv, sc_csv, meta_csv, calls, top_marker_num, ratio_num,
                 marker, id2label, single_cell_matrix, weights, cell_target_num>>

\* data_process(data, top_marker_num, ratio_num), first part (lines 193-202)
SelectMarkers ==
  /\ pc = "loaded"
  /\ raised = "none"
  /\ \E top \in 0..MaxTop :
       \E o \in select_markers(data, top) :
         /\ top_marker_num' = top
         /\ raised' = o.raised
         /\ calls' = o.calls
         /\ marker' = o.marker
         /\ pc' = IF o.raised = "none" THEN "marked" ELSE "done"
  /\ UNCHANGED <<bulk_csv, sc_csv, meta_csv, data, ratio_num, id2label,
                 single_cell_matrix, weights, cell_target_num>>

\* data_process, second part (lines 203-251)
Estimate ==
  /\ pc = "marked"
  /\ \E rn \in 1..MaxRatio :
       \E o \in estimate(data, marker, rn) :
         /\ ratio_num' = rn
         /\ raised' = o.raised
         /\ calls' = calls \o o.calls
         /\ id2label' = o.id2label
         /\ single_cell_matrix' = o.single_cell_matrix
         /\ weights' = o.weights
         /\ cell_target_num' = o.cell_target_num
  /\ pc' = "done"
  /\ UNCHANGED <<bulk_csv, sc_csv, meta_csv, data, top_marker_num, marker>>

\* pipeline inputs: tables with unique gene identifiers, any metadata table
Init ==
  /\ bulk_csv \in BulkTables(UniqueGeneLists, 0..MaxExpr)
  /\ sc_csv \in ScTables(UniqueGeneLists, 0..MaxExpr)
  /\ meta_csv \in MetaTables
  /\ InitStart

Next == LoadData \/ Bulk2singleDataPrepare \/ SelectMarkers \/ Estimate

Spec == Init /\ [][Next]_vars

NextLoad == LoadData \/ Bulk2singleDataPrepare

\* the two loaders alone, on gene lists of any shape
SpecLoad == InitLoad /\ [][NextLoad]_vars

\* Inputs for the marker selection.  The ranking is modelled as any ranking
\* of the genes, so the expression values play no part and are all 0; the
\* metadata is that of the annotated object.
InitMarkers ==
  /\ bulk_csv \in BulkTables(UniqueGeneLists, {0})
  /\ sc_csv \in ScTables(UniqueGeneLists, {0})
  /\ meta_csv \in ObsTables(sc_csv)
  /\ InitStart

NextMarkers == LoadData \/ Bulk2singleDataPrepare \/ SelectMarkers

\* loading and marker selection, on every pair of duplicate-free gene lists
SpecMarkers == InitMarkers /\ [][NextMarkers]_vars

\* The state of data_process at line 203 for tables of one gene, which is
\* the marker: any expression values, any labels, the metadata rows in any
\* order.
InitEstimate ==
  /\ bulk_csv \in BulkTables({<<1>>}, 0..MaxExpr)
  /\ sc_csv \in ScTables({<<1>>}, 0..MaxExpr)
  /\ meta_csv \in MetaPerms(sc_csv)
  /\ pc = "marked"
  /\ data = load_data(bulk_csv, sc_csv, meta_csv).data
  /\ calls = <<"set_obs", "rank_genes_groups", "select_markers">>
  /\ top_marker_num = 1
  /\ marker = <<1>>
  /\ InitRest

NextEstimate == Estimate

\* the second part of data_process alone
SpecEstimate == InitEstimate /\ [][NextEstimate]_vars

\* ---- properties ----
MetaCells == {meta_csv[i].Cell : i \in 1..Len(meta_csv)}

MetaMatches == [i \in 1..Len(meta_csv) |-> meta_csv[i].Cell] = sc_csv.columns

Reached(step) == step \in Range(calls)

AlignedToIntersect ==
  /\ Range(data.intersect_gene) \subseteq Range(sc_csv.index)
  /\ Range(data.intersect_gene) \subseteq Range(bulk_csv.index)
  /\ IsUnique(data.intersect_gene)
  /\ data.input_sc_data.index = data.intersect_gene
  /\ data.input_bulk.index = data.intersect_gene

\* C1 as stated: for every pair of gene lists, whatever loader ran,
\* intersect_gene is a duplicate-free subset of both lists and both returned
\* tables have exactly the rows of intersect_gene, in its order.
C1_AnyGeneLists ==
  (pc = "loaded" /\ raised = "none") => AlignedToIntersect

\* C1 amended: when neither gene list repeats an identifier, the loader
\* succeeds, intersect_gene is a duplicate-free subset of both lists, and
\* both returned tables have exactly the rows of intersect_gene, in its order.
C1_UniqueGeneLists ==
  (pc = "loaded" /\ IsUnique(sc_csv.index) /\ IsUnique(bulk_csv.index))
    => (raised = "none" /\ AlignedToIntersect)

C1_Witness ==
  /\ pc = "loaded"
  /\ IsUnique(sc_csv.index) /\ IsUnique(bulk_csv.index)
  /\ Len(data.intersect_gene) = 2
  /\ bulk_csv.index # data.intersect_gene
  /\ data.input_bulk.vals # bulk_csv.vals

BothLoadersAgree ==
  LET a == load_data(bulk_csv, sc_csv, meta_csv)
      b == bulk2single_data_prepare(bulk_csv, AnnData(sc_csv, meta_csv))
  IN /\ a.raised = "none" /\ b.raised = "none"
     /\ a.data = b.data
     /\ data = a.data

\* C10 as stated: on the same gene lists and metadata, load_data and
\* bulk2single_data_prepare return the same gene lists, the same table
\* layouts and the same Cell / Cell_type metadata.
C10_AnyGeneLists ==
  (pc = "loaded" /\ SameAsObject) => BothLoadersAgree

\* C10 amended: the same, when the single-cell gene list repeats no
\* identifier.
C10_UniqueScGenes ==
  (pc = "loaded" /\ SameAsObject /\ IsUnique(sc_csv.index)) => BothLoadersAgree

C10_Witness ==
  /\ pc = "loaded" /\ SameAsObject /\ IsUnique(sc_csv.index)
  /\ Len(data.intersect_gene) = 2
  /\ Len(data.input_sc_data.columns) = 2
  /\ data.input_sc_data.vals[1][2] # data.input_sc_data.vals[2][1]

\* C2: when the fitted weights sum to zero, data_process fails with
\* DegenerateFitError after the fit and before scaling, and returns nothing.
C2_DegenerateFitFails ==
  (pc = "done" /\ Reached("normalize") /\ marker # <<>>
     /\ SumOver(weights, DOMAIN weights) = 0)
    => (raised = "DegenerateFitError" /\ ~Reached("scale") /\ cell_target_num = <<>>)

\* C3: disjoint gene lists give an empty intersect_gene, and data_process on
\* that result fails with InsufficientDataError before ranking or fitting.
C3_EmptyIntersectionFails ==
  /\ (pc # "start" /\ raised = "none"
        /\ Range(sc_csv.index) \cap Range(bulk_csv.index) = {})
       => data.intersect_gene = <<>>
  /\ (pc = "done" /\ MetaMatches /\ sc_csv.index # <<>> /\ bulk_csv.index # <<>>
        /\ data.intersect_gene = <<>>)
       => (raised = "InsufficientDataError"
             /\ ~Reached("rank_genes_groups") /\ ~Reached("nnls"))

\* C4: metadata whose cells equal or strictly include the matrix columns is
\* accepted (not rejected when the metadata is attached or looked up); the
\* call fails with the missing-key error (KeyError) exactly when some matrix
\* column has no metadata row.
C4_MetadataSuperset ==
  (pc = "done" /\ data.intersect_gene # <<>>) =>
    LET covered == Range(sc_csv.columns) \subseteq MetaCells
    IN /\ covered => /\ raised # "KeyError"
                     /\ ~(raised = "ValueError" /\ calls = <<"set_obs">>)
       /\ raised = "KeyError" => ~covered
       /\ ~covered => raised # "none"

\* C5: when marker selection yields no gene, data_process fails with
\* InsufficientMarkersError before the fit; a fit is only attempted on a
\* non-empty marker list.
C5_EmptyMarkersFail ==
  (pc = "done" /\ MetaMatches /\ data.intersect_gene # <<>>) =>
    /\ (Reached("select_markers") /\ marker = <<>>)
         => (raised = "InsufficientMarkersError" /\ ~Reached("nnls"))
    /\ Reached("nnls") => marker # <<>>

\* expression of gene g in cell c in the loaded single-cell table
ExprAt(g, c) ==
  LET t == data.input_sc_data
  IN t.vals[CHOOSE i \in 1..Len(t.index) : t.index[i] = g]
           [CHOOSE j \in 1..Len(t.columns) : t.columns[j] = c]

CellsOf(label) ==
  {meta_csv[r].Cell : r \in {q \in 1..Len(meta_csv) : meta_csv[q].Cell_type = label}}

\* C6: the distinct labels in ascending order get IDs 0..K-1; column i of the
\* reference matrix is the per-gene mean over exactly the cells labelled with
\* the i-th label, and the count derived from weight i is returned under that
\* label, whatever the order of the metadata rows.
C6_LabelOrder ==
  (pc = "done" /\ Reached("nnls")) =>
    LET K == Len(id2label)
    IN /\ Range(id2label) = breed_set(meta_csv)
       /\ \A i, j \in 1..K : i < j => id2label[i] < id2label[j]
       /\ \A i \in 1..K : \A g \in 1..Len(marker) :
            single_cell_matrix[g][i] =
              [num |-> SumOver([c \in CellsOf(id2label[i]) |-> ExprAt(marker[g], c)],
                               CellsOf(id2label[i])),
               den |-> Cardinality(CellsOf(id2label[i]))]
       /\ raised = "none" =>
            /\ DOMAIN cell_target_num = breed_set(meta_csv)
            /\ \A i \in 1..K :
                 cell_target_num[id2label[i]] =
                   scale(weights, i, Len(meta_csv), ratio_num)

C6_Witness ==
  /\ pc = "done" /\ raised = "none"
  /\ Len(id2label) = 2
  /\ meta_csv[1].Cell_type = 2 /\ meta_csv[2].Cell_type = 1
  /\ Len(marker) >= 1
  /\ single_cell_matrix[1][1] # single_cell_matrix[1][2]
  /\ cell_target_num[1] # cell_target_num[2]
  /\ ~cell_target_num[1].nan

\* C7: every call that returns maps each distinct label to
\* round(weight x number of metadata rows x ratio_num), a non-negative integer.
C7_CountsAreIntegers ==
  (pc = "done" /\ raised = "none" /\ marker # <<>>) =>
    /\ DOMAIN cell_target_num = breed_set(meta_csv)
    /\ \A i \in 1..Len(id2label) :
         LET s == SumOver(weights, DOMAIN weights)
             r == cell_target_num[id2label[i]]
         IN /\ ~r.nan
            /\ r.val >= 0
            /\ s # 0 => r.val = np_round(weights[i] * Len(meta_csv) * ratio_num,
                                         s * RatioDen)

\* C8: for fixed normalized proportions and a fixed number of cells, a larger
\* ratio_num never gives a smaller target count for any cell type.
C8_ScalingMonotonic ==
  (pc = "done" /\ raised = "none" /\ SumOver(weights, DOMAIN weights) # 0) =>
    \A k \in 1..Len(weights) :
      /\ cell_target_num[id2label[k]] = scale(weights, k, Len(meta_csv), ratio_num)
      /\ \A r1, r2 \in 1..MaxRatio :
           r1 <= r2 => scale(weights, k, Len(meta_csv), r1).val
                         <= scale(weights, k, Len(meta_csv), r2).val

C8_Witness ==
  /\ pc = "done" /\ raised = "none" /\ SumOver(weights, DOMAIN weights) # 0
  /\ \E k \in 1..Len(weights) :
       /\ scale(weights, k, Len(meta_csv), 1).val
            = scale(weights, k, Len(meta_csv), 2).val
       /\ scale(weights, k, Len(meta_csv), 2).val
            < scale(weights, k, Len(meta_csv), 3).val

\* C9: the marker list has no duplicate, at most top_marker_num x (number of
\* cell types) entries, and only genes of intersect_gene, which are rows of
\* both loaded tables.
C9_MarkerList ==
  Reached("select_markers") =>
    /\ IsUnique(marker)
    /\ Len(marker) <= top_marker_num * Cardinality(breed_set(meta_csv))
    /\ Range(marker) \subseteq Range(data.intersect_gene)
    /\ Range(marker) \subseteq Range(data.input_sc_data.index)
    /\ Range(marker) \subseteq Range(data.input_bulk.index)

C9_Witness ==
  /\ pc = "marked" /\ Reached("select_markers")
  /\ top_marker_num = 1
  /\ Cardinality(breed_set(meta_csv)) = 2
  /\ Len(data.intersect_gene) = 2
  /\ Len(marker) = 1

====
